---- MODULE Spec2Model ----
(***************************************************************************)
(* Model of MdAnkiBridge (src/main.py): one run of main() reads the        *)
(* markdown file, finds the headings and the anchor link of every section, *)
(* then walks the headings in document order talking to the note store     *)
(* (get_note / update_note / add_note) and finally writes the file back.   *)
(*                                                                         *)
(* Abstractions.  A file is a sequence of lines; a line is a record whose  *)
(* kind k says what the regular expressions and the tokenizer see in it:   *)
(*   "h"    an ATX heading of level lv with inline content c               *)
(*   "b"    a line whose strip() is empty                                  *)
(*   "t"    a line of prose                                                *)
(*   "a"    a line holding one anchor link with id and (optional) mod      *)
(*   "noid" a line holding one anchor link without an id parameter         *)
(*   "two"  a line holding two anchor links; id/mod are the first link's   *)
(*   "s"    the text line of a setext heading of level lv (1 or 2)         *)
(*   "u"    the underline (=== or ---) that ends a setext heading          *)
(* Line numbers are 0-based as in the source.  Text sent to the store is a *)
(* sequence of characters in which "\n" is the line terminator.            *)
(* The tokenizer (markdown-it) is outside the program: an ATX heading has  *)
(* token.map = [i, i + 1], a setext heading [i, i + 2]; every line ends in *)
(* "\n".  The documents of Spec have ATX headings only; the documents of   *)
(* ParseSpec, which applies the parsing passes alone, have both.           *)
(* RaceSpec is Spec with another writer of the collection that may edit a *)
(* note between any two steps of a run.                                    *)
(* Note ids and mods are decimal numbers, NONE where Python has None.      *)
(* The store's clock may advance by one tick at each write to the store;   *)
(* a run that has raised does not start again.                             *)
(***************************************************************************)
EXTENDS Integers, Sequences, FiniteSets, TLC

\* ------------------------------------------------------------------ bounds
MaxLen == 4
MaxRuns == 2
MaxClock == 3
MaxUnits == 4
MaxEdits == 1
MaxRaceLen == 3

\* ------------------------------------------------------------------ values
NONE == -1

Heading(l, c) == [k |-> "h", lv |-> l, c |-> c, id |-> NONE, mod |-> NONE]
Blank == [k |-> "b", lv |-> 0, c |-> "", id |-> NONE, mod |-> NONE]
Text == [k |-> "t", lv |-> 0, c |-> "x", id |-> NONE, mod |-> NONE]
AnchorLine(i, m) == [k |-> "a", lv |-> 0, c |-> "", id |-> i, mod |-> m]
NoIdLine == [k |-> "noid", lv |-> 0, c |-> "", id |-> NONE, mod |-> NONE]
TwoLinksLine(i, m) == [k |-> "two", lv |-> 0, c |-> "", id |-> i, mod |-> m]
SetextHeading(l, c) == [k |-> "s", lv |-> l, c |-> c, id |-> NONE, mod |-> NONE]
Underline == [k |-> "u", lv |-> 0, c |-> "", id |-> NONE, mod |-> NONE]

\* the record the starter collection holds, and the store's clock at start
StarterId == 1
StartMod == 2
StarterNote == [f0 |-> "front", f1 |-> <<"back">>, tags |-> <<>>, mod |-> StartMod]

\* ids and mods an anchor of the input file may carry: an id absent from
\* the store and the starter id; no mod, a mod older than the store's, the
\* store's mod
UnknownId == 0
FileMods == {NONE, StartMod - 1, StartMod}

Levels == {1, 2}
Contents == {"U #a/b"}

HeadingLines == {Heading(l, c) : l \in Levels, c \in Contents}

InputLines ==
    HeadingLines
    \cup {Blank, Text, NoIdLine}
    \cup {AnchorLine(StarterId, m) : m \in FileMods}
    \cup {AnchorLine(UnknownId, NONE), TwoLinksLine(StarterId, NONE)}

\* the input documents: an optional line of preamble, a heading, and any
\* lines after it, MaxLen lines at most
SeqsUpTo(S, n) == UNION {[1..m -> S] : m \in 0..n}

InputDocs ==
    {<<h>> \o rest : h \in HeadingLines, rest \in SeqsUpTo(InputLines, MaxLen - 1)}
    \cup {<<Text, h>> \o rest :
             h \in HeadingLines, rest \in SeqsUpTo(InputLines, MaxLen - 2)}

\* ------------------------------------------------------- python list idiom
\* lines[a:b]
Slice(s, a, b) == SubSeq(s, a + 1, b)
\* lines[a]  (callers guard a < len(lines))
At(s, a) == s[a + 1]

Min(a, b) == IF a < b THEN a ELSE b

\* ------------------------------------------------------------- text of lines
IsBlank(l) == l.k = "b"

LineText(l) ==
    CASE l.k = "b" -> <<"\n">>
      [] l.k = "t" -> <<"x", "\n">>
      [] l.k = "h" -> <<"#", "\n">>
      [] l.k = "s" -> <<"s", "\n">>
      [] l.k = "u" -> <<"=", "\n">>
      [] OTHER -> <<"[anki]", "\n">>

RECURSIVE Join(_)
Join(ls) == IF ls = <<>> THEN <<>> ELSE LineText(Head(ls)) \o Join(Tail(ls))

\* ---------------------------------------------------------- extract_headings
\* re.findall(r"#([\w\d_\/]+)", content) with "/" replaced by "::"
TagsOf(c) == IF c = "U #a/b" THEN <<"a::b">> ELSE <<>>

\* content with the attribute block and the tags removed, stripped
StrippedContent(c) == IF c = "U #a/b" THEN "U" ELSE c

HeadingIdx(lines) == {i \in 0..(Len(lines) - 1) : At(lines, i).k \in {"h", "s"}}

\* token.map[1] - token.map[0]: the lines the heading itself occupies
HeadingSpan(l) == IF l.k = "s" THEN 2 ELSE 1

\* the n-th (1-based) smallest element of a finite set of naturals
RECURSIVE Nth(_, _)
Nth(S, n) ==
    LET m == CHOOSE x \in S : \A y \in S : x <= y
    IN IF n = 1 THEN m ELSE Nth(S \ {m}, n - 1)

extract_headings(lines) ==
    LET H == HeadingIdx(lines)
    IN [n \in 1..Cardinality(H) |->
          LET i == Nth(H, n)
          IN [level |-> At(lines, i).lv,
              start_line |-> i,
              end_line |-> i + HeadingSpan(At(lines, i)),
              stripped_content |-> StrippedContent(At(lines, i).c),
              tags |-> TagsOf(At(lines, i).c)]]

\* -------------------------------------------------------- mark_leaf_headings
\* an inner loop that goes on past siblings and shallower headings
RECURSIVE LeafScan_NoSiblingBreak(_, _, _)
LeafScan_NoSiblingBreak(hs, current_level, j) ==
    IF j > Len(hs) THEN TRUE
    ELSE IF hs[j].level > current_level THEN FALSE
    ELSE LeafScan_NoSiblingBreak(hs, current_level, j + 1)

\* lines 65-72: the inner loop over headings[idx + 1:], from position j on;
\* the value is is_leaf when the loop ends
RECURSIVE LeafScan(_, _, _)
LeafScan(hs, current_level, j) ==
    IF j > Len(hs) THEN TRUE
    ELSE IF hs[j].level > current_level THEN FALSE
    ELSE IF hs[j].level <= current_level THEN TRUE
    ELSE LeafScan(hs, current_level, j + 1)

\* lines 60-63: is_leaf of the n-th heading
IsLeaf(hs, n) == LeafScan(hs, hs[n].level, n + 1)

\* ---------------------------------------------------- attach_verbatim_content
ContentEnd(lines, hs, n) ==
    IF n < Len(hs) THEN hs[n + 1].start_line ELSE Len(lines)

\* -------------------------------------------------------------- find_anki_link
IsLink(l) == l.k \in {"a", "noid", "two"}

Standalone(body, idx) ==
    /\ idx > 0
    /\ idx < Len(body) - 1
    /\ IsBlank(At(body, idx - 1))
    /\ IsBlank(At(body, idx + 1))

\* res: "none" | "ok" | "multiple" | "noid"; first/last index the body
find_anki_link(body) ==
    LET M == {i \in 0..(Len(body) - 1) : IsLink(At(body, i))}
        none == [res |-> "none", first |-> 0, last |-> 0, id |-> NONE, mod |-> NONE]
    IN IF Cardinality(M) > 1 THEN [none EXCEPT !.res = "multiple"]
       ELSE IF M = {} THEN none
       ELSE LET idx == CHOOSE i \in M : TRUE
                l == At(body, idx)
            IN IF l.k = "noid" THEN [none EXCEPT !.res = "noid"]
               ELSE [res |-> "ok",
                     first |-> idx,
                     last |-> IF Standalone(body, idx) THEN idx + 1 ELSE idx,
                     id |-> l.id,
                     mod |-> l.mod]

\* ------------------------------------------------------------ attach_anki_link
\* the headings of main() after the four passes of lines 234-237
ParseHeadings(lines) ==
    LET hs == extract_headings(lines)
    IN [n \in 1..Len(hs) |->
          LET h == hs[n]
              ce == ContentEnd(lines, hs, n)
              f == find_anki_link(Slice(lines, h.end_line, ce))
          IN [level |-> h.level,
              start_line |-> h.start_line,
              end_line |-> h.end_line,
              stripped_content |-> h.stripped_content,
              tags |-> h.tags,
              is_leaf |-> IsLeaf(hs, n),
              content_start |-> h.end_line,
              content_end |-> ce,
              link |-> f.res,
              anki_id |-> f.id,
              anki_mod |-> f.mod,
              link_first |-> IF f.res = "ok" THEN f.first + h.start_line + 1 ELSE 0,
              link_last |-> IF f.res = "ok" THEN f.last + 1 + h.start_line + 1 ELSE 0]]

\* find_anki_link raises ValueError for some heading
ParseFails(lines) ==
    \E n \in DOMAIN ParseHeadings(lines) :
        ParseHeadings(lines)[n].link \in {"multiple", "noid"}

\* ------------------------------------------------------------------ the store
\* col.get_note(id) raises when the collection has no such note
HasNote(st, id) == id \in DOMAIN st

SameContent(a, b) == a.f0 = b.f0 /\ a.f1 = b.f1 /\ a.tags = b.tags

\* col.update_note(note) at time t: the note as given replaces the stored one;
\* the store advances mod iff the content has changed (comment at lines 271-272)
update_note(st, n, t) ==
    IF SameContent(st[n.id], n) THEN st
    ELSE [st EXCEPT ![n.id] = [f0 |-> n.f0, f1 |-> n.f1, tags |-> n.tags, mod |-> t]]

\* the id col.add_note gives a new note: one no note of the collection has
NewId(st) == (CHOOSE x \in DOMAIN st : \A y \in DOMAIN st : y <= x) + 1

\* col.add_note(note, deck) at time t
add_note(st, f0, f1, tags, t) ==
    [i \in DOMAIN st \cup {NewId(st)} |->
        IF i \in DOMAIN st THEN st[i]
        ELSE [f0 |-> f0, f1 |-> f1, tags |-> tags, mod |-> t]]

NoNote == [id |-> NONE, f0 |-> "", f1 |-> <<>>, tags |-> <<>>, mod |-> NONE]
FetchedNote(st, id) ==
    [id |-> id, f0 |-> st[id].f0, f1 |-> st[id].f1, tags |-> st[id].tags,
     mod |-> st[id].mod]

\* -------------------------------------------------------------- main(): pieces
\* a comparison that never finds the store ahead of the file
NewerInAnki_Never(noteMod, ankiMod) == FALSE

\* line 253: heading["anki_mod"] and note.mod > int(heading["anki_mod"])
NewerInAnki(noteMod, ankiMod) == ankiMod # NONE /\ noteMod > ankiMod

\* lines 262-265: the text main() puts in note.fields[1] of an anchored heading
PushField1(lines, h) ==
    Join(Slice(lines, h.content_start, h.link_first)
         \o Slice(lines, h.link_last, h.content_end))

\* lines 289-291: the text main() puts in note.fields[1] of a new note
CreateField1(lines, h) == Join(Slice(lines, h.content_start, h.content_end))

\* line 243: a heading that is no leaf has its lines copied first
NonLeafCopy(lines, h) ==
    IF h.is_leaf THEN <<>> ELSE Slice(lines, h.start_line, h.content_end)

\* lines 279-285: what an anchored heading adds to updated_lines; the one
\* string "[anki](...)\n\n" is an anchor line and a blank line of the file
PushOutput(lines, h, mod) ==
    Slice(lines, h.start_line, h.link_first)
    \o <<AnchorLine(h.anki_id, mod), Blank>>
    \o Slice(lines, h.link_last, h.content_end)

\* lines 301-308: what a new heading adds to updated_lines; the one string
\* "\n[anki](...)\n" (+ "\n") is a blank line, an anchor line (and a blank line)
CreateOutput(lines, h, id, mod) ==
    Slice(lines, h.start_line, h.end_line)
    \o <<Blank, AnchorLine(id, mod)>>
    \o (IF IsBlank(At(lines, h.end_line)) THEN <<>> ELSE <<Blank>>)
    \o Slice(lines, h.end_line, h.content_end)

\* line 305 reads lines[heading["end_line"]]: IndexError past the last line
CreateOutputRaises(lines, h) == h.end_line >= Len(lines)

\* ------------------------------------------------------------------ state
VARIABLES
    file,           \* the markdown file on disk, a sequence of lines
    lines,          \* main()'s lines: the file as the run loaded it
    store,          \* the collection: note id -> [f0, f1, tags, mod]
    now,            \* the store's clock (note.mod is a timestamp)
    pc,             \* "idle" | "node" | "update" | "refetch" | "created" | "write" | "failed"
    err,            \* the exception that ended the run, "" when none
    headings,       \* main()'s headings, in document order
    idx,            \* the loop variable: headings[idx] is being processed
    updated_lines,  \* main()'s updated_lines
    note,           \* main()'s note
    calls,          \* the store calls of the run so far, in order
    runs,           \* runs of main() started
    written         \* the files written, one per completed run

vars == <<file, lines, store, now, pc, err, headings, idx, updated_lines, note, calls,
          runs, written>>

Call(op, n, id, nt, rec) ==
    [op |-> op, node |-> n, id |-> id, f0 |-> nt.f0, f1 |-> nt.f1,
     tags |-> nt.tags, mod |-> nt.mod, rec |-> rec]

Init ==
    /\ file \in InputDocs
    /\ lines = <<>>
    /\ store = (StarterId :> StarterNote)
    /\ now = StartMod
    /\ pc = "idle"
    /\ err = ""
    /\ headings = <<>>
    /\ idx = 0
    /\ updated_lines = <<>>
    /\ note = NoNote
    /\ calls = <<>>
    /\ runs = 0
    /\ written = <<>>

\* where the loop of line 241 goes after headings[idx]
AfterNode == IF idx < Len(headings) THEN "node" ELSE "write"

Raise(e) ==
    /\ pc' = "failed"
    /\ err' = e

\* lines 231-239: load the file, find the headings and their anchors
Parse ==
    /\ pc = "idle"
    /\ runs < MaxRuns
    /\ ~ParseFails(file)
    /\ runs' = runs + 1
    /\ lines' = file
    /\ headings' = ParseHeadings(file)
    /\ idx' = 1
    /\ updated_lines' = Slice(file, 0, ParseHeadings(file)[1].start_line)
    /\ pc' = "node"
    /\ calls' = <<>>
    /\ UNCHANGED <<file, store, now, err, note, written>>

\* lines 124-125, 136-137: find_anki_link raises before the loop starts
ParseError ==
    /\ pc = "idle"
    /\ runs < MaxRuns
    /\ ParseFails(file)
    /\ runs' = runs + 1
    /\ lines' = file
    /\ calls' = <<>>
    /\ Raise("validation")
    /\ UNCHANGED <<file, store, now, headings, idx, updated_lines, note, written>>

\* an unknown id that is skipped: the loop goes on to the next heading
FetchUnknown_Skips ==
    /\ pc = "node"
    /\ headings[idx].anki_id # NONE
    /\ ~HasNote(store, headings[idx].anki_id)
    /\ updated_lines' = updated_lines \o NonLeafCopy(lines, headings[idx])
    /\ idx' = idx + 1
    /\ pc' = AfterNode
    /\ UNCHANGED <<file, lines, store, now, err, headings, note, calls, runs, written>>

\* lines 242-251: the id of the anchor is not in the collection
FetchUnknown ==
    /\ pc = "node"
    /\ headings[idx].anki_id # NONE
    /\ ~HasNote(store, headings[idx].anki_id)
    /\ updated_lines' = updated_lines \o NonLeafCopy(lines, headings[idx])
    /\ Raise("notfound")
    /\ UNCHANGED <<file, lines, store, now, headings, idx, note, calls, runs, written>>

\* lines 242-255: the note is fetched and is newer than the anchor says
FetchNewer ==
    /\ pc = "node"
    /\ headings[idx].anki_id # NONE
    /\ HasNote(store, headings[idx].anki_id)
    /\ LET n == FetchedNote(store, headings[idx].anki_id)
       IN /\ NewerInAnki(n.mod, headings[idx].anki_mod)
          /\ note' = n
          /\ calls' = Append(calls, Call("fetch", idx, n.id, n, headings[idx].anki_mod))
    /\ updated_lines' = updated_lines \o NonLeafCopy(lines, headings[idx])
    /\ Raise("newer")
    /\ UNCHANGED <<file, lines, store, now, headings, idx, runs, written>>

\* lines 242-260: the note is fetched and is to be synced
Fetch ==
    /\ pc = "node"
    /\ headings[idx].anki_id # NONE
    /\ HasNote(store, headings[idx].anki_id)
    /\ LET n == FetchedNote(store, headings[idx].anki_id)
       IN /\ ~NewerInAnki(n.mod, headings[idx].anki_mod)
          /\ note' = n
          /\ calls' = Append(calls, Call("fetch", idx, n.id, n, headings[idx].anki_mod))
    /\ updated_lines' = updated_lines \o NonLeafCopy(lines, headings[idx])
    /\ pc' = "update"
    /\ UNCHANGED <<file, lines, store, now, err, headings, idx, runs, written>>

\* an update that looks at the store's mod first and raises when it is no
\* longer the fetched one
Update_Guarded ==
    /\ pc = "update"
    /\ IF store[note.id].mod # note.mod
       THEN /\ Raise("newer")
            /\ UNCHANGED <<file, lines, store, now, headings, idx, updated_lines,
                           note, calls, runs, written>>
       ELSE /\ \E t \in now..Min(now + 1, MaxClock) :
                 LET n == [note EXCEPT !.f0 = headings[idx].stripped_content,
                                       !.f1 = PushField1(lines, headings[idx]),
                                       !.tags = headings[idx].tags]
                 IN /\ now' = t
                    /\ note' = n
                    /\ store' = update_note(store, n, t)
                    /\ calls' = Append(calls, Call("update", idx, n.id, n,
                                                   headings[idx].anki_mod))
            /\ pc' = "refetch"
            /\ UNCHANGED <<file, lines, err, headings, idx, updated_lines, runs, written>>

\* lines 261-268: the heading's text goes into the note and to the store
Update ==
    /\ pc = "update"
    /\ \E t \in now..Min(now + 1, MaxClock) :
         LET n == [note EXCEPT !.f0 = headings[idx].stripped_content,
                               !.f1 = PushField1(lines, headings[idx]),
                               !.tags = headings[idx].tags]
         IN /\ now' = t
            /\ note' = n
            /\ store' = update_note(store, n, t)
            /\ calls' = Append(calls, Call("update", idx, n.id, n, headings[idx].anki_mod))
    /\ pc' = "refetch"
    /\ UNCHANGED <<file, lines, err, headings, idx, updated_lines, runs, written>>

\* lines 273-285: the note is read again for its mod; the section is rendered
Refetch ==
    /\ pc = "refetch"
    /\ LET n == FetchedNote(store, note.id)
       IN /\ note' = n
          /\ calls' = Append(calls, Call("refetch", idx, n.id, n, headings[idx].anki_mod))
          /\ headings' = [headings EXCEPT ![idx].anki_mod = n.mod]
          /\ updated_lines' = updated_lines \o PushOutput(lines, headings[idx], n.mod)
    /\ idx' = idx + 1
    /\ pc' = AfterNode
    /\ UNCHANGED <<file, lines, store, now, err, runs, written>>

\* lines 242-243, 286-295: a heading without an anchor becomes a new note
Create ==
    /\ pc = "node"
    /\ headings[idx].anki_id = NONE
    /\ \E t \in now..Min(now + 1, MaxClock) :
         LET id == NewId(store)
             st == add_note(store, headings[idx].stripped_content,
                            CreateField1(lines, headings[idx]), headings[idx].tags, t)
         IN /\ now' = t
            /\ store' = st
            /\ note' = FetchedNote(st, id)
            /\ calls' = Append(calls, Call("create", idx, id, st[id], NONE))
            /\ headings' = [headings EXCEPT ![idx].anki_id = id]
    /\ updated_lines' = updated_lines \o NonLeafCopy(lines, headings[idx])
    /\ pc' = "created"
    /\ UNCHANGED <<file, lines, err, idx, runs, written>>

\* lines 297-308: the new note is read for its mod; the section is rendered
RefetchCreated ==
    /\ pc = "created"
    /\ ~CreateOutputRaises(lines, headings[idx])
    /\ LET n == FetchedNote(store, headings[idx].anki_id)
       IN /\ note' = n
          /\ calls' = Append(calls, Call("refetch", idx, n.id, n, NONE))
          /\ headings' = [headings EXCEPT ![idx].anki_mod = n.mod]
          /\ updated_lines' =
                updated_lines \o CreateOutput(lines, headings[idx], n.id, n.mod)
    /\ idx' = idx + 1
    /\ pc' = AfterNode
    /\ UNCHANGED <<file, lines, store, now, err, runs, written>>

\* lines 297-305: as above, but the heading is the last line of the file
RefetchCreatedRaises ==
    /\ pc = "created"
    /\ CreateOutputRaises(lines, headings[idx])
    /\ LET n == FetchedNote(store, headings[idx].anki_id)
       IN /\ note' = n
          /\ calls' = Append(calls, Call("refetch", idx, n.id, n, NONE))
          /\ headings' = [headings EXCEPT ![idx].anki_mod = n.mod]
    /\ Raise("index")
    /\ UNCHANGED <<file, lines, store, now, idx, updated_lines, runs, written>>

\* line 315: the file is written, once, after the loop
WriteFile ==
    /\ pc = "write"
    /\ file' = updated_lines
    /\ written' = Append(written, updated_lines)
    /\ pc' = "idle"
    /\ UNCHANGED <<lines, store, now, err, headings, idx, updated_lines, note, calls, runs>>

Next ==
    \/ Parse
    \/ ParseError
    \/ FetchUnknown
    \/ FetchNewer
    \/ Fetch
    \/ Update
    \/ Refetch
    \/ Create
    \/ RefetchCreated
    \/ RefetchCreatedRaises
    \/ WriteFile

Spec == Init /\ [][Next]_vars

\* ------------------------------------------- the store as a shared record
\* what an external writer leaves in field 1 of the note it edits
ExternalField == <<"e">>

EditsOf(cs) == {k \in DOMAIN cs : cs[k].op = "external"}

\* another user of the collection edits a note between any two steps of a
\* run in progress, at most MaxEdits times per run (an edit made between two
\* runs is a store ahead of the file when the next run starts).  The edit is
\* logged among the store calls; its node is the heading whose note main()
\* holds between lines 248 and 268 (fetched, not yet updated), 0 at any
\* other step.
ExternalEdit ==
    /\ pc \in {"node", "update", "refetch", "created", "write"}
    /\ Cardinality(EditsOf(calls)) < MaxEdits
    /\ \E id \in DOMAIN store, t \in now..Min(now + 1, MaxClock) :
         LET n == [id |-> id, f0 |-> store[id].f0, f1 |-> ExternalField,
                   tags |-> store[id].tags, mod |-> t]
         IN /\ store' = [store EXCEPT ![id].f1 = ExternalField, ![id].mod = t]
            /\ now' = t
            /\ calls' = Append(calls,
                   Call("external", IF pc = "update" /\ id = note.id THEN idx ELSE 0,
                        id, n, NONE))
    /\ UNCHANGED <<file, lines, pc, err, headings, idx, updated_lines, note, runs, written>>

RaceNext ==
    \/ Next
    \/ ExternalEdit

RaceDocs == {d \in InputDocs : Len(d) <= MaxRaceLen}

RaceInit ==
    /\ file \in RaceDocs
    /\ lines = <<>>
    /\ store = (StarterId :> StarterNote)
    /\ now = StartMod
    /\ pc = "idle"
    /\ err = ""
    /\ headings = <<>>
    /\ idx = 0
    /\ updated_lines = <<>>
    /\ note = NoNote
    /\ calls = <<>>
    /\ runs = 0
    /\ written = <<>>

RaceSpec == RaceInit /\ [][RaceNext]_vars

\* ------------------------------------------------ the parsing passes alone
\* documents built of units: a line, or a setext heading with its underline;
\* a setext heading starts a paragraph, so the line before it ends one
ParseUnits ==
    {<<Heading(l, c)>> : l \in {1, 2, 3}, c \in Contents}
    \cup {<<SetextHeading(l, c), Underline>> : l \in {1, 2}, c \in Contents}
    \cup {<<Blank>>, <<Text>>, <<AnchorLine(StarterId, NONE)>>}

RECURSIVE Flatten(_)
Flatten(us) == IF us = <<>> THEN <<>> ELSE Head(us) \o Flatten(Tail(us))

ParseDocs ==
    {d \in {Flatten(us) : us \in SeqsUpTo(ParseUnits, MaxUnits)} :
        \A i \in DOMAIN d :
            (d[i].k = "s" /\ i > 1) => d[i - 1].k \in {"b", "h", "u"}}

ParseInit ==
    /\ file \in ParseDocs
    /\ lines = <<>>
    /\ store = (StarterId :> StarterNote)
    /\ now = StartMod
    /\ pc = "idle"
    /\ err = ""
    /\ headings = <<>>
    /\ idx = 0
    /\ updated_lines = <<>>
    /\ note = NoNote
    /\ calls = <<>>
    /\ runs = 0
    /\ written = <<>>

\* lines 231-237 with find_anki_link's result kept in place of its raise
ParseOnly ==
    /\ pc = "idle"
    /\ lines' = file
    /\ headings' = ParseHeadings(file)
    /\ pc' = "parsed"
    /\ UNCHANGED <<file, store, now, err, idx, updated_lines, note, calls, runs, written>>

ParseSpec == ParseInit /\ [][ParseOnly]_vars

TypeOK ==
    /\ pc \in {"idle", "node", "update", "refetch", "created", "write", "failed",
              "parsed"}
    /\ err \in {"", "validation", "notfound", "newer", "index"}
    /\ (pc = "failed") = (err # "")
    /\ now \in StartMod..MaxClock
    /\ runs \in 0..MaxRuns

\* ------------------------------------------------------------------ claims
\* a fetch of the run that found the store's mod ahead of the recorded one
StoreAhead(k) ==
    /\ calls[k].op = "fetch"
    /\ calls[k].rec # NONE
    /\ calls[k].mod > calls[k].rec

\* a fetch of the run that found the store's mod not ahead, or none recorded
StoreNotAhead(k) ==
    /\ calls[k].op = "fetch"
    /\ (calls[k].rec = NONE \/ calls[k].mod <= calls[k].rec)

C2_Pull ==
    \A k \in DOMAIN calls :
        (StoreAhead(k) /\ headings[calls[k].node].is_leaf) =>
            /\ pc # "failed"
            /\ (idx > calls[k].node =>
                   /\ headings[calls[k].node].stripped_content = calls[k].f0
                   /\ headings[calls[k].node].tags = calls[k].tags
                   /\ headings[calls[k].node].anki_mod = calls[k].mod)

\* the spec's other_content of a section: the body without the anchor span,
\* leading and trailing blank lines stripped, joined, no terminator at the end
BodyWithoutAnchor(ls, h) ==
    IF h.link = "ok"
    THEN Slice(ls, h.content_start, h.link_first) \o Slice(ls, h.link_last, h.content_end)
    ELSE Slice(ls, h.content_start, h.content_end)

RECURSIVE DropLeadingBlank(_)
DropLeadingBlank(ls) ==
    IF ls # <<>> /\ IsBlank(Head(ls)) THEN DropLeadingBlank(Tail(ls)) ELSE ls

RECURSIVE DropTrailingBlank(_)
DropTrailingBlank(ls) ==
    IF ls # <<>> /\ IsBlank(ls[Len(ls)])
    THEN DropTrailingBlank(SubSeq(ls, 1, Len(ls) - 1))
    ELSE ls

OtherContentText(ls, h) ==
    LET t == Join(DropTrailingBlank(DropLeadingBlank(BodyWithoutAnchor(ls, h))))
    IN IF t = <<>> THEN t ELSE SubSeq(t, 1, Len(t) - 1)

CallsOf(op, n) == {j \in DOMAIN calls : calls[j].op = op /\ calls[j].node = n}

\* C3: PUSH. For a processed leaf heading whose fetch found the store not
\* ahead (or no recorded revision), exactly one update call was made, right
\* after the fetch, carrying the heading's title, its joined other_content
\* and its tags; the revision was then fetched again and recorded.
C3_Push ==
    \A k \in DOMAIN calls :
        (StoreNotAhead(k) /\ headings[calls[k].node].is_leaf /\ calls[k].node < idx) =>
            LET n == calls[k].node
            IN /\ CallsOf("update", n) = {k + 1}
               /\ calls[k + 1].f0 = headings[n].stripped_content
               /\ calls[k + 1].f1 = OtherContentText(lines, headings[n])
               /\ calls[k + 1].tags = headings[n].tags
               /\ calls[k + 2].op = "refetch"
               /\ headings[n].anki_mod = calls[k + 2].mod

\* C4: CREATE. Every processed leaf heading without an anchor has exactly
\* one create call, carrying its title, its joined other_content and its
\* tags; the id returned is the heading's anchor id, the run does not stop at
\* that heading, the re-fetched revision is recorded, and the file the run
\* writes has the anchor line with that id and revision.
C4_Create ==
    \A n \in DOMAIN headings :
        (headings[n].is_leaf /\ headings[n].link = "none" /\ calls # <<>>
         /\ (n < idx \/ (n = idx /\ pc # "node"))) =>
            /\ Cardinality(CallsOf("create", n)) = 1
            /\ \A k \in CallsOf("create", n) :
                 /\ calls[k].f0 = headings[n].stripped_content
                 /\ calls[k].f1 = OtherContentText(lines, headings[n])
                 /\ calls[k].tags = headings[n].tags
                 /\ headings[n].anki_id = calls[k].id
                 /\ ~(pc = "failed" /\ idx = n)
                 /\ (n < idx =>
                        /\ calls[k + 1].op = "refetch"
                        /\ headings[n].anki_mod = calls[k + 1].mod)
                 /\ (pc = "idle" =>
                        \E i \in DOMAIN file :
                            file[i] = AnchorLine(calls[k].id, headings[n].anki_mod))

\* the content a create or update call of the run left in the store, unless a
\* later update of the run replaced it
Remains(k) ==
    (\A j \in DOMAIN calls : (j > k /\ calls[j].op = "update") => calls[j].id # calls[k].id)
        => /\ HasNote(store, calls[k].id)
           /\ SameContent(store[calls[k].id], calls[k])

\* C5: unknown id. Once the loop has reached a heading whose anchor id is not
\* in the store, the run has stopped with the not-found error at that
\* heading; in that state the file is the one the run loaded, no file was
\* written by this run, and what the earlier headings of the run created or
\* updated is still in the store.
C5_UnknownIdAborts ==
    /\ \A n \in DOMAIN headings :
         (/\ headings[n].anki_id # NONE
          /\ ~HasNote(store, headings[n].anki_id)
          /\ (n < idx \/ (n = idx /\ pc # "node")))
            => (pc = "failed" /\ err = "notfound" /\ idx = n)
    /\ (pc = "failed" /\ err = "notfound") =>
         /\ file = lines
         /\ Len(written) = runs - 1
         /\ \A k \in DOMAIN calls : calls[k].op \in {"create", "update"} => Remains(k)

\* C5 witness: the run stopped on an unknown id after an earlier heading had
\* changed the store
C5_Witness ==
    /\ pc = "failed"
    /\ err = "notfound"
    /\ \E k \in DOMAIN calls : calls[k].op \in {"create", "update"}
    /\ store # (StarterId :> StarterNote)

\* the anchor links a line holds
LinkCount(l) == IF l.k = "two" THEN 2 ELSE IF IsLink(l) THEN 1 ELSE 0

RECURSIVE LinksIn(_)
LinksIn(ls) == IF ls = <<>> THEN 0 ELSE LinkCount(Head(ls)) + LinksIn(Tail(ls))

\* a section whose body holds more than one anchor link, or one without id
Malformed(ls) ==
    LET hs == extract_headings(ls)
    IN \E n \in DOMAIN hs :
         LET body == Slice(ls, hs[n].end_line, ContentEnd(ls, hs, n))
         IN \/ LinksIn(body) > 1
            \/ \E i \in DOMAIN body : body[i].k = "noid"

\* C6: parse-shape errors. A run on a file with a malformed section, wherever
\* it is, has failed with the validation error, with no store call made and
\* the file as it was loaded.
C6_ParseShapeErrors ==
    (pc # "idle" /\ Malformed(lines)) =>
        /\ pc = "failed"
        /\ err = "validation"
        /\ calls = <<>>
        /\ file = lines

\* C7: fixed point. The file written by the second of two runs in succession
\* is the file written by the first (anchor revisions included).
C7_FixedPoint ==
    Len(written) >= 2 => written[2] = written[1]

\* C8: non-leaf headings. No store call of the run is made for a heading
\* that is not a leaf, and the rendered document holds each heading line of
\* the loaded file exactly once.
C8_NonLeafUntouched ==
    /\ \A k \in DOMAIN calls : headings[calls[k].node].is_leaf
    /\ pc = "write" => Cardinality(HeadingIdx(updated_lines)) = Len(headings)

\* C9: field 1. The field 1 value of every create and update call is the
\* section's other_content: the body without the anchor span, leading and
\* trailing blank lines stripped, no terminator after the last line, and no
\* anchor link in it.
C9_Field1IsOtherContent ==
    \A k \in DOMAIN calls :
        calls[k].op \in {"create", "update"} =>
            /\ calls[k].f1 = OtherContentText(lines, headings[calls[k].node])
            /\ \A i \in DOMAIN calls[k].f1 : calls[k].f1[i] # "[anki]"

\* the leaf sections of a file, as the next run will see them
LeafLinkLines(f) ==
    LET hs == extract_headings(f)
    IN {i \in 0..(Len(f) - 1) :
          /\ IsLink(At(f, i))
          /\ \E n \in DOMAIN hs :
               /\ IsLeaf(hs, n)
               /\ hs[n].end_line <= i
               /\ i < ContentEnd(f, hs, n)}

\* C10: anchor block. In the file a run has written, the anchor line of every
\* leaf section has a blank line right before it and a blank line right
\* after it; and a run whose only store write is one create, for a leaf
\* heading followed by a blank line, writes a file two lines longer.
C10_AnchorBlock ==
    (pc = "idle" /\ written # <<>>) =>
        /\ \A i \in LeafLinkLines(file) :
             /\ i > 0
             /\ IsBlank(At(file, i - 1))
             /\ i < Len(file) - 1
             /\ IsBlank(At(file, i + 1))
        /\ \A n \in DOMAIN headings :
             (/\ headings[n].is_leaf
              /\ CallsOf("create", n) # {}
              /\ \A j \in DOMAIN calls : calls[j].op \in {"create", "refetch"} /\ calls[j].node = n
              /\ IsBlank(At(lines, headings[n].end_line)))
                => Len(file) = Len(lines) + 2

\* C11: mark_leaf_headings. After the pass, a heading is not a leaf iff the
\* heading right after it exists and is strictly deeper; otherwise (the next
\* heading is at its level or above, or there is none) it is a leaf.  The
\* headings are those of extract_headings, in the same order with the same
\* levels.
C11_LeafIffNextDeeper ==
    pc = "parsed" =>
        /\ Len(headings) = Len(extract_headings(lines))
        /\ \A n \in DOMAIN headings :
             /\ headings[n].level = extract_headings(lines)[n].level
             /\ headings[n].start_line = extract_headings(lines)[n].start_line
             /\ headings[n].is_leaf =
                  ~(n < Len(headings) /\ headings[n + 1].level > headings[n].level)

\* C11 witness: a leaf followed by a sibling and then by a deeper heading,
\* and a heading that is no leaf
C11_Witness ==
    /\ pc = "parsed"
    /\ \E n \in DOMAIN headings :
         /\ n + 2 <= Len(headings)
         /\ headings[n].is_leaf
         /\ headings[n + 1].level <= headings[n].level
         /\ headings[n + 2].level > headings[n].level
    /\ \E n \in DOMAIN headings : ~headings[n].is_leaf

\* the document line of the one anchor line of the n-th heading's body
MatchedLine(n) ==
    CHOOSE i \in headings[n].content_start..(headings[n].content_end - 1) :
        IsLink(At(lines, i))

\* the matched line has a blank line before it and a blank line after it,
\* both inside the body range
BlankBothSides(n) ==
    LET i == MatchedLine(n)
    IN /\ i - 1 >= headings[n].content_start
       /\ i + 1 < headings[n].content_end
       /\ IsBlank(At(lines, i - 1))
       /\ IsBlank(At(lines, i + 1))

\* C12: anchor span. For a heading whose body [content_start, content_end)
\* has exactly one anchor line, the span [link_first, link_last) in document
\* line numbers starts at the matched line, takes in the blank line after it
\* iff the matched line has a blank line on both sides inside the body, and
\* lies within the body range.
C12_AnchorSpan ==
    pc = "parsed" =>
        \A n \in DOMAIN headings :
            headings[n].link = "ok" =>
                /\ headings[n].link_first = MatchedLine(n)
                /\ headings[n].link_last =
                       IF BlankBothSides(n) THEN MatchedLine(n) + 2
                                            ELSE MatchedLine(n) + 1
                /\ headings[n].content_start <= headings[n].link_first
                /\ headings[n].link_last <= headings[n].content_end

\* C12 restricted to headings that occupy one line
C12_AnchorSpanOneLineHeading ==
    pc = "parsed" =>
        \A n \in DOMAIN headings :
            (headings[n].link = "ok"
             /\ headings[n].end_line = headings[n].start_line + 1) =>
                /\ headings[n].link_first = MatchedLine(n)
                /\ headings[n].link_last =
                       IF BlankBothSides(n) THEN MatchedLine(n) + 2
                                            ELSE MatchedLine(n) + 1
                /\ headings[n].content_start <= headings[n].link_first
                /\ headings[n].link_last <= headings[n].content_end

\* an external edit of the run that landed after the fetch of its note for
\* a heading and before the update of that heading
InWindow(k) == calls[k].op = "external" /\ calls[k].node # 0

\* the first call main() makes after position k of the run's calls, 0 if none
NextRunCall(k) ==
    LET later == {j \in DOMAIN calls : j > k /\ calls[j].op # "external"}
    IN IF later = {} THEN 0 ELSE CHOOSE j \in later : \A i \in later : j <= i

\* C13: race window. An external edit that lands after the run's fetch of a
\* note and before its update is not detected: the run has not failed and its
\* next store call is the update of that note for that heading; right after
\* the update the store holds the update's content, not the external edit's;
\* the revision read back after the update is the one the heading records
\* and, once the run has completed, the one in the file's anchor line.
C13_RaceWindow ==
    \A k \in DOMAIN calls :
        InWindow(k) =>
            LET n == calls[k].node
                id == calls[k].id
                j == NextRunCall(k)
            IN /\ j = 0 => (pc = "update" /\ idx = n /\ err = "")
               /\ j # 0 =>
                    /\ calls[j].op = "update"
                    /\ calls[j].node = n
                    /\ calls[j].id = id
               /\ (j # 0 /\ j = Len(calls)) =>
                    /\ pc = "refetch"
                    /\ SameContent(store[id], calls[j])
                    /\ store[id].f1 # ExternalField
                    /\ store[id].mod >= calls[k].mod
               /\ (j # 0 /\ j + 1 = Len(calls) /\ calls[j + 1].op = "refetch") =>
                    /\ calls[j + 1].mod = store[id].mod
                    /\ headings[n].anki_mod = store[id].mod
               /\ (j # 0 /\ j + 1 <= Len(calls) /\ calls[j + 1].op = "refetch"
                   /\ pc = "idle") =>
                    \E i \in DOMAIN file : file[i] = AnchorLine(id, calls[j + 1].mod)

\* C13 witness: a completed run in which an external edit with a later
\* revision than the fetched one landed in the window and is lost; the file
\* holds the post-update revision
C13_Witness ==
    /\ pc = "idle"
    /\ err = ""
    /\ written # <<>>
    /\ \E k \in DOMAIN calls :
         /\ InWindow(k)
         /\ k > 1
         /\ calls[k - 1].op = "fetch"
         /\ calls[k].mod > calls[k - 1].mod
         /\ store[calls[k].id].f1 # ExternalField
         /\ \E i \in DOMAIN file :
              file[i] = AnchorLine(calls[k].id, store[calls[k].id].mod)

\* the create calls of the run so far
Creates == {k \in DOMAIN calls : calls[k].op = "create"}

\* the leaf sections without an anchor in the file the run loaded
AnchorlessLeaves ==
    {n \in DOMAIN headings : headings[n].is_leaf /\ headings[n].link = "none"}

\* C14: creation happens once. A create call is made only for a heading whose
\* section has no anchor id in the file the run loaded; a first run that
\* completes makes as many create calls as the document has leaf sections
\* without an anchor; and a run that reads the file a completed run wrote
\* makes no create call.
C14_CreateOnce ==
    /\ \A k \in Creates : ParseHeadings(lines)[calls[k].node].anki_id = NONE
    /\ (runs = 1 /\ pc = "idle" /\ Len(written) = 1) =>
           Cardinality(Creates) = Cardinality(AnchorlessLeaves)
    /\ runs >= 2 => Creates = {}

====
